---- MODULE Spec2Model ----
(***************************************************************************)
(* Model of the semantic index of second-brain-mcp: VectorStore            *)
(* (src/src/vector-store.ts) and the tool handlers that call it            *)
(* (src/unnamed/part_001).                                                 *)
(*                                                                         *)
(* A text is a sequence of one-character strings.  The two SQLite tables   *)
(* are the variables files and embeddings; sqlite_sequence is seq.  Each   *)
(* asynchronous indexFiles call is a process that runs synchronously       *)
(* between two awaits of the embedding client, so every state of the model *)
(* is a point at which another operation can read the store.               *)
(***************************************************************************)
EXTENDS Integers, Sequences, FiniteSets, TLC

VARIABLES
    files,       \* table files: set of rows [id, path, content, mtime]
    embeddings,  \* table embeddings in rowid order: rows [file_id, chunk_index, chunk_text, embedding]
    seq,         \* sqlite_sequence of files (AUTOINCREMENT): largest id ever given
    call,        \* call[c]: the indexFiles call of caller c (its locals and position)
    pre,         \* pre[c]: files and embeddings as they were when call c started
    disturbed,   \* disturbed[c]: another call wrote to the store while call c was running
    brokenIds,   \* ids of file rows whose indexing ended in an error
    latest,      \* latest[p]: <<>> or <<the content last indexed for path p>>
    prev,        \* prev[p]: content of the row of path p that the last insert replaced
    res,         \* the answer of a search / getRecentFiles / tool request being handed over
    embedder,    \* the embedding model behind the embedding client
    cText,       \* chunker harness: the text given to chunkText
    cBound,      \* chunker harness: the bound given to chunkText
    cOut         \* chunker harness: "none" or the chunks returned

vars == <<files, embeddings, seq, call, pre, disturbed, brokenIds, latest,
          prev, res, embedder, cText, cBound, cOut>>

storeVars == <<files, embeddings, seq, call, pre, disturbed, brokenIds, latest,
               prev, res, embedder>>

chunkVars == <<cText, cBound, cOut>>

(***************************************************************************)
(* Bounds of the model.                                                    *)
(***************************************************************************)
MaxTextLen == 4     \* longest text given to the chunker harness
MaxBound == 3       \* largest bound given to the chunker harness
IndexChunkSize == 3 \* the bound indexFiles passes to chunkText (500 in the source, scaled)
batchSize == 2      \* chunks per embedding request (20 in the source, scaled)
MaxInserts == 3     \* file rows inserted in one behaviour (caps the AUTOINCREMENT id)
MaxLimit == 2       \* largest limit given to search

(***************************************************************************)
(* Strings.                                                                *)
(***************************************************************************)
NL == "\n"

Chars == {"a", "b", " ", NL}

\* String.prototype.trim strips white space and line terminators at both ends.
IsSpace(c) == c \in {" ", NL}

RECURSIVE TextsOfLen(_)
TextsOfLen(n) ==
    IF n = 0 THEN {<<>>}
    ELSE {Append(t, c) : t \in TextsOfLen(n - 1), c \in Chars}

Texts == UNION {TextsOfLen(n) : n \in 0..MaxTextLen}

RECURSIVE TrimStart(_)
TrimStart(s) ==
    IF s # <<>> /\ IsSpace(Head(s)) THEN TrimStart(Tail(s)) ELSE s

RECURSIVE TrimEnd(_)
TrimEnd(s) ==
    IF s # <<>> /\ IsSpace(s[Len(s)]) THEN TrimEnd(SubSeq(s, 1, Len(s) - 1)) ELSE s

trim(s) == TrimEnd(TrimStart(s))

\* text.split('\n'): the pieces between the separators; "" gives [""].
RECURSIVE SplitFrom(_, _)
SplitFrom(s, cur) ==
    IF s = <<>> THEN <<cur>>
    ELSE IF Head(s) = NL THEN <<cur>> \o SplitFrom(Tail(s), <<>>)
    ELSE SplitFrom(Tail(s), Append(cur, Head(s)))

split(s) == SplitFrom(s, <<>>)

\* Array.prototype.join('\n')
RECURSIVE join(_)
join(ss) ==
    IF ss = <<>> THEN <<>>
    ELSE IF Len(ss) = 1 THEN ss[1]
    ELSE ss[1] \o <<NL>> \o join(Tail(ss))

(***************************************************************************)
(* chunkText (vector-store.ts 156-174).  acc = [chunks, currentChunk].     *)
(***************************************************************************)
\* A faulty loop body: the flush test leaves out the length of the line.
ChunkStepLateFlush(acc, line, maxChunkSize) ==
    LET flush == Len(acc.currentChunk) > maxChunkSize /\ acc.currentChunk # <<>>
        chunks1 == IF flush THEN Append(acc.chunks, trim(acc.currentChunk))
                   ELSE acc.chunks
        cur1 == IF flush THEN <<>> ELSE acc.currentChunk
    IN [chunks |-> chunks1, currentChunk |-> cur1 \o line \o <<NL>>]

\* One iteration of the for loop over the lines (lines 161-167).
ChunkStep(acc, line, maxChunkSize) ==
    LET flush == Len(acc.currentChunk) + Len(line) > maxChunkSize
                 /\ acc.currentChunk # <<>>
        chunks1 == IF flush THEN Append(acc.chunks, trim(acc.currentChunk))
                   ELSE acc.chunks
        cur1 == IF flush THEN <<>> ELSE acc.currentChunk
    IN [chunks |-> chunks1, currentChunk |-> cur1 \o line \o <<NL>>]

RECURSIVE ChunkLoop(_, _, _)
ChunkLoop(acc, lines, maxChunkSize) ==
    IF lines = <<>> THEN acc
    ELSE ChunkLoop(ChunkStep(acc, Head(lines), maxChunkSize), Tail(lines), maxChunkSize)

\* A faulty chunkText: the trailing buffer (lines 169-171) is not flushed.
chunkTextNoFinalFlush(text, maxChunkSize) ==
    ChunkLoop([chunks |-> <<>>, currentChunk |-> <<>>], split(text), maxChunkSize).chunks

chunkText(text, maxChunkSize) ==
    LET acc == ChunkLoop([chunks |-> <<>>, currentChunk |-> <<>>], split(text), maxChunkSize)
    IN IF trim(acc.currentChunk) # <<>>
       THEN Append(acc.chunks, trim(acc.currentChunk))
       ELSE acc.chunks

(***************************************************************************)
(* Inputs of the store model.                                              *)
(***************************************************************************)
Callers == {"A", "B"}

Paths == {"p1", "p2"}

DayMs == 24 * 60 * 60 * 1000

Now0 == 10 * DayMs

Old == Now0 - DayMs

\* What the file enumerator hands over: IndexedFile (part_002 6-12); size and
\* extension are stored and never read.
IndexedFiles ==
    { [path |-> "p1", content |-> <<"a", "a", NL, "b", "b", NL, "a", "b">>, mtime |-> Old],
      [path |-> "p1", content |-> <<"a">>, mtime |-> Now0],
      [path |-> "p2", content |-> <<"a", " ", "b">>, mtime |-> Now0],
      [path |-> "p2", content |-> <<>>, mtime |-> Old] }

FileLists == {<<f>> : f \in IndexedFiles} \cup {<<f, g>> : f, g \in IndexedFiles}

Queries == {<<"a">>, <<"a", "b">>}

RECURSIVE Count(_, _)
Count(text, ch) ==
    IF text = <<>> THEN 0
    ELSE (IF Head(text) = ch THEN 1 ELSE 0) + Count(Tail(text), ch)

\* The embedding client (openai.embeddings.create, lines 78-81 and 96-99): one
\* vector for each input text, a function of the text.  "bag" is a model of
\* dimension 2; "mixed" answers in a dimension that differs between texts.
Embed(text) ==
    IF embedder = "mixed" /\ Len(text) = 1
    THEN <<Count(text, "a") + Count(text, "b")>>
    ELSE <<Count(text, "a"), Count(text, "b")>>

Min(a, b) == IF a < b THEN a ELSE b

(***************************************************************************)
(* The SQLite store (schema: vector-store.ts 22-45).  A database value is  *)
(* db = [files, embeddings, seq, latest, prev]; latest and prev are        *)
(* history kept beside the tables.  better-sqlite3 opens the database with *)
(* foreign keys enforced, and a row deleted by OR REPLACE takes its        *)
(* ON DELETE CASCADE children with it.                                     *)
(***************************************************************************)
\* Rows of embeddings deleted by ON DELETE CASCADE when the file rows ids go.
CascadeDelete(es, ids) == SelectSeq(es, LAMBDA e : e.file_id \notin ids)

\* A faulty insertFile: the replaced row's embeddings are not deleted.
insertFileNoCascade(db, file) ==
    LET old == {f \in db.files : f.path = file.path}
        id == db.seq + 1
        row == [id |-> id, path |-> file.path, content |-> file.content,
                mtime |-> file.mtime]
    IN [files |-> (db.files \ old) \cup {row},
        embeddings |-> db.embeddings,
        seq |-> id,
        latest |-> [db.latest EXCEPT ![file.path] = <<file.content>>],
        prev |-> [db.prev EXCEPT ![file.path] =
                     IF old = {} THEN <<>> ELSE <<(CHOOSE f \in old : TRUE).content>>]]

\* insertFile.run (lines 48-51, 60-66): INSERT OR REPLACE INTO files.  path is
\* UNIQUE, so the row of the same path is deleted (and its embeddings with it)
\* and the new row gets the next AUTOINCREMENT id (result.lastInsertRowid).
insertFile(db, file) ==
    LET old == {f \in db.files : f.path = file.path}
        id == db.seq + 1
        row == [id |-> id, path |-> file.path, content |-> file.content,
                mtime |-> file.mtime]
    IN [files |-> (db.files \ old) \cup {row},
        embeddings |-> CascadeDelete(db.embeddings, {f.id : f \in old}),
        seq |-> id,
        latest |-> [db.latest EXCEPT ![file.path] = <<file.content>>],
        prev |-> [db.prev EXCEPT ![file.path] =
                     IF old = {} THEN <<>> ELSE <<(CHOOSE f \in old : TRUE).content>>]]

\* new Float32Array(embedding) (line 86): rounding to 32-bit floats, which is
\* exact on integers up to 2^24 and keeps 24 significant bits beyond.
fround(x) ==
    IF -16777216 <= x /\ x <= 16777216 THEN x ELSE (x \div 2) * 2

\* A store that does not enforce the foreign key.
ForeignKeyOff(db, fileId) == TRUE

\* The FOREIGN KEY of embeddings.file_id (line 39) holds for the row.
ForeignKeyOk(db, fileId) == \E f \in db.files : f.id = fileId

\* insertEmbedding.run (lines 53-56, 88): INSERT OR REPLACE INTO embeddings; a row
\* with the same primary key (file_id, chunk_index) is replaced.
insertEmbedding(db, fileId, index, text, embedding) ==
    LET row == [file_id |-> fileId, chunk_index |-> index, chunk_text |-> text,
                embedding |-> [n \in 1..Len(embedding) |-> fround(embedding[n])]]
        kept == SelectSeq(db.embeddings,
                          LAMBDA e : ~(e.file_id = fileId /\ e.chunk_index = index))
    IN [db EXCEPT !.embeddings = Append(kept, row)]

\* The for loop over one batch (lines 84-89), from position j of the batch: the
\* insert throws when the file row fileId is gone, and rows written stay.
RECURSIVE StoreBatch(_, _, _, _, _, _)
StoreBatch(db, fileId, i, batch, data, j) ==
    IF j >= Len(batch) THEN [db |-> db, ok |-> TRUE]
    ELSE IF ~ForeignKeyOk(db, fileId) THEN [db |-> db, ok |-> FALSE]
    ELSE StoreBatch(insertEmbedding(db, fileId, i + j, batch[j + 1], data[j + 1]),
                    fileId, i, batch, data, j + 1)

\* A faulty slice: the batch is one chunk short.
BatchShort(chunks, i) == SubSeq(chunks, i + 1, Min(i + batchSize, Len(chunks)) - 1)

\* chunks.slice(i, i + batchSize) (line 76)
Batch(chunks, i) == SubSeq(chunks, i + 1, Min(i + batchSize, Len(chunks)))

\* The for loop over the files (lines 58-91) from file k (1-based) up to the next
\* await of the embedding client, or to the end of the list.
RECURSIVE IndexLoop(_, _, _)
IndexLoop(db, list, k) ==
    IF k > Len(list)
    THEN [db |-> db, pc |-> "done", k |-> k, fileId |-> 0, chunks |-> <<>>, i |-> 0]
    ELSE LET db1 == insertFile(db, list[k])
             chunks == chunkText(list[k].content, IndexChunkSize)
         IN IF chunks = <<>>
            THEN IndexLoop(db1, list, k + 1)
            ELSE [db |-> db1, pc |-> "await", k |-> k, fileId |-> db1.seq,
                  chunks |-> chunks, i |-> 0]

Db == [files |-> files, embeddings |-> embeddings, seq |-> seq,
       latest |-> latest, prev |-> prev]

IdleCall == [pc |-> "idle", files |-> <<>>, k |-> 0, fileId |-> 0,
             chunks |-> <<>>, i |-> 0, err |-> "none", reply |-> "none"]

NoSnapshot == [files |-> {}, embeddings |-> <<>>]

NoRes == [op |-> "none"]

\* The handler's answer to index_directory (part_001 116-119, 136-145, 149-161).
Reply(pc) ==
    IF pc = "done" THEN "ok" ELSE IF pc = "failed" THEN "error" ELSE "none"

\* Writes of call c are seen by every other call that has started.
Disturb(c, wrote) ==
    [d \in Callers |->
        IF d # c /\ wrote /\ call[d].pc \in {"await", "failed"} THEN TRUE
        ELSE disturbed[d]]

SetDb(db) ==
    /\ files' = db.files
    /\ embeddings' = db.embeddings
    /\ seq' = db.seq
    /\ latest' = db.latest
    /\ prev' = db.prev

\* The call has run to position r (a result of IndexLoop, or a failure); the
\* locals of a call that has returned are gone.
Land(c, list, r) ==
    /\ SetDb(r.db)
    /\ call' = [call EXCEPT ![c] =
                   IF r.pc = "done" THEN [IdleCall EXCEPT !.pc = "done", !.reply = Reply("done")]
                   ELSE [pc |-> r.pc, files |-> list, k |-> r.k, fileId |-> r.fileId,
                         chunks |-> r.chunks, i |-> r.i,
                         err |-> IF r.pc = "failed" THEN "constraint" ELSE "none",
                         reply |-> Reply(r.pc)]]

\* Ids of broken file rows that are still in the table.
Live(ids, db) == ids \cap {f.id : f \in db.files}

(***************************************************************************)
(* indexFiles (lines 47-92), called by handleIndexDirectory.               *)
(***************************************************************************)
\* The call starts and runs to its first await.  Callers name the calls in
\* flight: a new call is "A" unless call "A" is suspended at an await.
IndexStart(c, list) ==
    /\ res = NoRes
    /\ call[c].pc \in {"idle", "done", "failed"}
    /\ \A d \in Callers : call[d].pc = "await" \/ c = "A" \/ d # "A"
    /\ seq + Len(list) <= MaxInserts
    /\ Land(c, list, IndexLoop(Db, list, 1))
    /\ pre' = [pre EXCEPT ![c] =
                  IF IndexLoop(Db, list, 1).pc = "done" THEN NoSnapshot
                  ELSE [files |-> files, embeddings |-> embeddings]]
    /\ disturbed' = [Disturb(c, TRUE) EXCEPT ![c] = FALSE]
    /\ brokenIds' = Live(brokenIds, IndexLoop(Db, list, 1).db)
    /\ UNCHANGED <<res, embedder, chunkVars>>

\* The embedding client answers the batch at i (lines 78-90); the call stores
\* the batch and runs to its next await.
IndexResume(c) ==
    LET l == call[c]
        batch == Batch(l.chunks, l.i)
        data == [j \in 1..Len(batch) |-> Embed(batch[j])]
        st == StoreBatch(Db, l.fileId, l.i, batch, data, 0)
        i1 == l.i + batchSize
        r == IF ~st.ok
             THEN [db |-> st.db, pc |-> "failed", k |-> l.k, fileId |-> l.fileId,
                   chunks |-> l.chunks, i |-> l.i]
             ELSE IF i1 < Len(l.chunks)
             THEN [db |-> st.db, pc |-> "await", k |-> l.k, fileId |-> l.fileId,
                   chunks |-> l.chunks, i |-> i1]
             ELSE IndexLoop(st.db, l.files, l.k + 1)
    IN /\ res = NoRes
       /\ l.pc = "await"
       /\ Land(c, l.files, r)
       /\ brokenIds' = Live(brokenIds \cup (IF st.ok THEN {} ELSE {l.fileId}), r.db)
       /\ disturbed' = [Disturb(c, st.ok) EXCEPT ![c] = IF r.pc = "done" THEN FALSE ELSE @]
       /\ pre' = [pre EXCEPT ![c] = IF r.pc = "done" THEN NoSnapshot ELSE @]
       /\ UNCHANGED <<res, embedder, chunkVars>>

\* The embedding client rejects the request (line 78): indexFiles rejects.
IndexEmbedFail(c) ==
    /\ res = NoRes
    /\ call[c].pc = "await"
    /\ call' = [call EXCEPT ![c].pc = "failed", ![c].err = "embedding",
                             ![c].reply = Reply("failed")]
    /\ brokenIds' = Live(brokenIds \cup {call[c].fileId}, Db)
    /\ UNCHANGED <<files, embeddings, seq, latest, prev, pre, disturbed,
                   res, embedder, chunkVars>>

(***************************************************************************)
(* Scores.  A score is NaN or the real number sign(num) * sqrt(|num| / den) *)
(* kept as the reduced fraction num / den, so that equal numbers are equal *)
(* values and the order of scores is the order of the fractions.           *)
(***************************************************************************)
NaN == [nan |-> TRUE, num |-> 0, den |-> 1]

RECURSIVE Gcd(_, _)
Gcd(a, b) == IF b = 0 THEN a ELSE Gcd(b, a % b)

RECURSIVE Dot(_, _, _)
Dot(a, b, n) == IF n = 0 THEN 0 ELSE Dot(a, b, n - 1) + a[n] * b[n]

\* cosineSimilarity (lines 176-188): the loop runs over a.length; b[i] beyond the
\* end of b is undefined and makes the sums NaN; entries of b beyond a.length are
\* never read; 0 / 0 is NaN.
cosineSimilarity(a, b) ==
    IF Len(b) < Len(a) THEN NaN
    ELSE LET dotProduct == Dot(a, b, Len(a))
             normA == Dot(a, a, Len(a))
             normB == Dot(b, b, Len(a))
             g == Gcd(dotProduct * dotProduct, normA * normB)
         IN IF normA * normB = 0 THEN NaN
            ELSE [nan |-> FALSE,
                  num |-> (IF dotProduct < 0 THEN -1 ELSE 1)
                          * ((dotProduct * dotProduct) \div g),
                  den |-> (normA * normB) \div g]

\* x < y on scores that are numbers.
ScoreLess(x, y) == x.num * y.den < y.num * x.den

\* A faulty comparator: a.score - b.score, which sorts ascending.
CompareAscending(a, b) ==
    IF a.score.nan \/ b.score.nan THEN "nan"
    ELSE IF ScoreLess(a.score, b.score) THEN "neg"
    ELSE IF ScoreLess(b.score, a.score) THEN "pos"
    ELSE "zero"

\* The comparator (a, b) => b.score - a.score (line 133): "nan", or the sign.
Compare(a, b) ==
    IF a.score.nan \/ b.score.nan THEN "nan"
    ELSE IF ScoreLess(b.score, a.score) THEN "neg"
    ELSE IF ScoreLess(a.score, b.score) THEN "pos"
    ELSE "zero"

\* x put into the sorted list s before the first element it must precede.
RECURSIVE InsertSorted(_, _)
InsertSorted(s, x) ==
    IF s = <<>> THEN <<x>>
    ELSE IF Compare(x, Head(s)) = "neg" THEN <<x>> \o s
    ELSE <<Head(s)>> \o InsertSorted(Tail(s), x)

RECURSIVE StableSort(_)
StableSort(rs) ==
    IF rs = <<>> THEN <<>>
    ELSE InsertSorted(StableSort(SubSeq(rs, 1, Len(rs) - 1)), rs[Len(rs)])

Perms(rs) ==
    {[n \in 1..Len(rs) |-> rs[f[n]]] :
        f \in {g \in [1..Len(rs) -> 1..Len(rs)] :
                  \A m, n \in 1..Len(rs) : g[m] = g[n] => m = n}}

\* Array.prototype.sort (line 133): stable; with a comparator that answers NaN
\* the order is implementation-defined, so every order is an outcome.
sort(rs) ==
    IF \E n \in 1..Len(rs) : rs[n].score.nan THEN Perms(rs) ELSE {StableSort(rs)}

\* slice(0, limit) for limit >= 0 (line 133)
slice(rs, limit) == SubSeq(rs, 1, Min(limit, Len(rs)))

\* SELECT ... FROM embeddings e JOIN files f ON e.file_id = f.id (lines 104-118),
\* in the rowid order of embeddings.
JoinedRows ==
    LET es == SelectSeq(embeddings, LAMBDA e : \E f \in files : f.id = e.file_id)
    IN [n \in 1..Len(es) |->
           LET f == CHOOSE f \in files : f.id = es[n].file_id
           IN [chunk_text |-> es[n].chunk_text, embedding |-> es[n].embedding,
               path |-> f.path, mtime |-> f.mtime]]

\* results of lines 120-130
Scored(queryEmbedding) ==
    [n \in 1..Len(JoinedRows) |->
        [path |-> JoinedRows[n].path, content |-> JoinedRows[n].chunk_text,
         score |-> cosineSimilarity(queryEmbedding, JoinedRows[n].embedding),
         mtime |-> JoinedRows[n].mtime]]

\* search (lines 94-134) once the query embedding has arrived: its outcomes.
search(queryEmbedding, limit) ==
    {slice(s, limit) : s \in sort(Scored(queryEmbedding))}

\* getRecentFiles (lines 136-154) at time now: its outcomes, one for each order
\* ORDER BY mtime DESC can give to rows of equal mtime.
getRecentFiles(days, now) ==
    LET cutoff == now - days * DayMs
        hit == {f \in files : f.mtime > cutoff}
    IN {s \in [1..Cardinality(hit) -> {[path |-> f.path, mtime |-> f.mtime] : f \in hit}] :
           /\ \A m, n \in 1..Cardinality(hit) : m < n =>
                 s[m].mtime >= s[n].mtime /\ s[m] # s[n]}

(***************************************************************************)
(* The tool layer (part_001 100-147).  An argument is <<>> when the request *)
(* leaves it out and <<v>> when it gives v.                                *)
(***************************************************************************)
DefaultLimit == 5

DefaultDays == 7

\* (arg as number) || dflt: undefined and 0 are falsy.
OrDefault(arg, dflt) == IF arg = <<>> \/ arg[1] = 0 THEN dflt ELSE arg[1]

\* r.content.substring(0, 200) of handleSemanticSearch (lines 166-174); the
\* score is kept as it is rather than printed with toFixed(3).
Format(rs) ==
    [n \in 1..Len(rs) |->
        [path |-> rs[n].path, score |-> rs[n].score,
         content |-> SubSeq(rs[n].content, 1, Min(200, Len(rs[n].content)))]]

Limits == 0..MaxLimit

Days == 0..1

\* VectorStore.search(query, limit); the step is the one after the await of the
\* query embedding (line 96), with the arguments the call was made with.
Search(query, limit) ==
    /\ res = NoRes
    /\ \E out \in search(Embed(query), limit) :
          res' = [op |-> "search", limit |-> limit, query |-> Embed(query),
                  error |-> FALSE, out |-> out]
    /\ UNCHANGED <<files, embeddings, seq, call, pre, disturbed, brokenIds, latest,
                   prev, embedder, chunkVars>>

\* The embedding client rejects the query (line 96): search rejects.
SearchEmbedFail ==
    /\ res = NoRes
    /\ res' = [op |-> "search", limit |-> 0, query |-> <<>>,
               error |-> TRUE, out |-> <<>>]
    /\ UNCHANGED <<files, embeddings, seq, call, pre, disturbed, brokenIds, latest,
                   prev, embedder, chunkVars>>

\* The semantic_search tool (lines 121-125, 163-184).
SemanticSearchTool(query, limitArg) ==
    /\ res = NoRes
    /\ \E out \in search(Embed(query), OrDefault(limitArg, DefaultLimit)) :
          res' = [op |-> "semantic_search", arg |-> limitArg, query |-> Embed(query),
                  error |-> FALSE, count |-> Len(out), out |-> Format(out)]
    /\ UNCHANGED <<files, embeddings, seq, call, pre, disturbed, brokenIds, latest,
                   prev, embedder, chunkVars>>

\* VectorStore.getRecentFiles(days) called at time now.
GetRecentFiles(days, now) ==
    /\ res = NoRes
    /\ \E out \in getRecentFiles(days, now) :
          res' = [op |-> "getRecentFiles", days |-> days, now |-> now, out |-> out]
    /\ UNCHANGED <<files, embeddings, seq, call, pre, disturbed, brokenIds, latest,
                   prev, embedder, chunkVars>>

\* The recent_activity tool (lines 130-131, 201-214).
RecentActivityTool(daysArg, now) ==
    /\ res = NoRes
    /\ \E out \in getRecentFiles(OrDefault(daysArg, DefaultDays), now) :
          res' = [op |-> "recent_activity", arg |-> daysArg, now |-> now, out |-> out]
    /\ UNCHANGED <<files, embeddings, seq, call, pre, disturbed, brokenIds, latest,
                   prev, embedder, chunkVars>>

\* The answer in res is handed to the client; res holds one answer at a time, and
\* the next step of the program is taken once it is handed over.
Respond ==
    /\ res # NoRes
    /\ res' = NoRes
    /\ UNCHANGED <<files, embeddings, seq, call, pre, disturbed, brokenIds, latest,
                   prev, embedder, chunkVars>>

(***************************************************************************)
(* The store specification: an empty database, an embedding client of a    *)
(* fixed dimension.                                                        *)
(***************************************************************************)
InitStore ==
    /\ files = {}
    /\ embeddings = <<>>
    /\ seq = 0
    /\ call = [c \in Callers |-> IdleCall]
    /\ pre = [c \in Callers |-> NoSnapshot]
    /\ disturbed = [c \in Callers |-> FALSE]
    /\ brokenIds = {}
    /\ latest = [p \in Paths |-> <<>>]
    /\ prev = [p \in Paths |-> <<>>]
    /\ res = NoRes

NoChunkRun ==
    /\ cText = <<>>
    /\ cBound = 0
    /\ cOut = [done |-> FALSE, chunks |-> <<>>]

Init == InitStore /\ embedder = "bag" /\ NoChunkRun

Next ==
    \/ \E c \in Callers, list \in FileLists : IndexStart(c, list)
    \/ \E c \in Callers : IndexResume(c)
    \/ \E c \in Callers : IndexEmbedFail(c)
    \/ \E q \in Queries, limit \in Limits : Search(q, limit)
    \/ SearchEmbedFail
    \/ \E q \in Queries, a \in {<<>>} \cup {<<n>> : n \in Limits} : SemanticSearchTool(q, a)
    \/ \E days \in Days : GetRecentFiles(days, Now0)
    \/ \E a \in {<<>>} \cup {<<n>> : n \in Days} : RecentActivityTool(a, Now0)
    \/ Respond

Spec == Init /\ [][Next]_vars

\* The same program with an embedding client whose answers differ in dimension.
InitMixed == InitStore /\ embedder = "mixed" /\ NoChunkRun

SpecMixed == InitMixed /\ [][Next]_vars

(***************************************************************************)
(* The chunker specification: chunkText applied to every short text.       *)
(***************************************************************************)
InitChunk ==
    /\ InitStore
    /\ embedder = "bag"
    /\ cText \in Texts
    /\ cBound \in 1..MaxBound
    /\ cOut = [done |-> FALSE, chunks |-> <<>>]

Chunk ==
    /\ ~cOut.done
    /\ cOut' = [done |-> TRUE, chunks |-> chunkText(cText, cBound)]
    /\ UNCHANGED <<storeVars, cText, cBound>>

NextChunk == Chunk

SpecChunk == InitChunk /\ [][NextChunk]_vars

(***************************************************************************)
(* Properties of the chunker, under SpecChunk.                             *)
(***************************************************************************)
NonSpace(t) == SelectSeq(t, LAMBDA c : ~IsSpace(c))

\* No line of t is empty or begins or ends with white space: t is not empty,
\* its two ends are not white space, and no white space touches a line break.
CleanText(t) ==
    /\ t # <<>>
    /\ ~IsSpace(t[1])
    /\ ~IsSpace(t[Len(t)])
    /\ \A n \in 2..(Len(t) - 1) : t[n] = NL => ~IsSpace(t[n - 1]) /\ ~IsSpace(t[n + 1])

\* C4 as stated: for every non-empty text and every bound, the chunks joined with
\* line breaks are the text, character for character.
C4_JoinReproducesText ==
    cOut.done /\ cText # <<>> => join(cOut.chunks) = cText

\* C4 amended: the chunks joined with line breaks are the text when no line of the
\* text is empty or begins or ends with white space; for every text the join and
\* the text have the same characters other than white space, in the same order.
C4_JoinReproducesCleanText ==
    cOut.done /\ cText # <<>> =>
        /\ CleanText(cText) => join(cOut.chunks) = cText
        /\ NonSpace(join(cOut.chunks)) = NonSpace(cText)

\* A text of clean lines has been cut into two chunks or more.
C4_Witness ==
    cOut.done /\ CleanText(cText) /\ Len(cOut.chunks) >= 2

\* C5: no chunk is empty, and the empty text gives no chunk.
C5_NoEmptyChunk ==
    cOut.done =>
        /\ \A n \in 1..Len(cOut.chunks) : Len(cOut.chunks[n]) >= 1
        /\ cText = <<>> => cOut.chunks = <<>>

\* A grouping of lines 1..n into runs of consecutive lines is the set of the
\* lines, other than line 1, that begin a run.
GroupOf(cuts, i) == 1 + Cardinality({c \in cuts : c <= i})

\* The lines of run g, joined with line breaks.
RunText(lines, cuts, g) ==
    LET in == {i \in 1..Len(lines) : GroupOf(cuts, i) = g}
        lo == CHOOSE i \in in : \A j \in in : i <= j
    IN join([n \in 1..Cardinality(in) |-> lines[lo + n - 1]])

RunSize(lines, cuts, g) ==
    Cardinality({i \in 1..Len(lines) : GroupOf(cuts, i) = g})

\* chunks are the runs of the grouping cuts, in order, each with the white space
\* at its two ends removed; a last run of blank lines may give no chunk.
ChunksAreRuns(lines, cuts, chunks) ==
    LET runs == 1 + Cardinality(cuts)
    IN /\ \/ Len(chunks) = runs
          \/ Len(chunks) = runs - 1 /\ trim(RunText(lines, cuts, runs)) = <<>>
       /\ \A g \in 1..Len(chunks) : chunks[g] = trim(RunText(lines, cuts, g))

\* C11: the chunks are runs of whole consecutive lines of the text, in line
\* order, no line in two chunks; a chunk longer than the bound is one line that
\* is itself longer than the bound, and a line longer than the bound is alone in
\* its chunk.
C11_WholeLinesOversizeAlone ==
    cOut.done =>
        LET lines == split(cText)
        IN \E cuts \in SUBSET (2..Len(lines)) :
              /\ ChunksAreRuns(lines, cuts, cOut.chunks)
              /\ \A g \in 1..Len(cOut.chunks) :
                    Len(cOut.chunks[g]) > cBound =>
                        RunSize(lines, cuts, g) = 1
              /\ \A i \in 1..Len(lines) :
                    Len(lines[i]) > cBound => RunSize(lines, cuts, GroupOf(cuts, i)) = 1

\* A text cut into two chunks or more, none empty, one longer than the bound.
C11_Witness ==
    /\ cOut.done
    /\ Len(cOut.chunks) >= 2
    /\ \A g \in 1..Len(cOut.chunks) : cOut.chunks[g] # <<>>
    /\ \E g \in 1..Len(cOut.chunks) : Len(cOut.chunks[g]) > cBound

(***************************************************************************)
(* Properties of indexFiles and the store, under Spec.                     *)
(***************************************************************************)
ChunkRows(id) == SelectSeq(embeddings, LAMBDA e : e.file_id = id)

\* The chunk rows of file row id are the chunks of content: as many rows as
\* chunks, and chunk n of the content at index n - 1.
ExactChunks(id, content) ==
    LET cs == chunkText(content, IndexChunkSize)
        rows == ChunkRows(id)
    IN /\ Len(rows) = Len(cs)
       /\ \A n \in 1..Len(cs) :
             \E m \in 1..Len(rows) :
                 rows[m].chunk_index = n - 1 /\ rows[m].chunk_text = cs[n]

\* No call is still indexing file row f, and none failed while indexing it.
Settled(f) ==
    /\ f.id \notin brokenIds
    /\ \A c \in Callers : call[c].pc = "await" => call[c].fileId # f.id

\* C1: each indexed path has exactly one file row, holding the content indexed
\* last; once indexing of the row has completed its chunk rows are the chunks of
\* that content at indices 0..n-1; no chunk row of a replaced file row remains.
C1_OneRecordLatestChunks ==
    /\ \A p \in Paths : latest[p] # <<>> =>
          \E f \in files :
              /\ f.path = p
              /\ f.content = latest[p][1]
              /\ \A g \in files : g.path = p => g = f
    /\ \A f \in files : Settled(f) => ExactChunks(f.id, latest[f.path][1])
    /\ \A n \in 1..Len(embeddings) : \E f \in files : f.id = embeddings[n].file_id

\* Path p1 was indexed with three chunks and then again with one; all calls have
\* returned without error.
C1_Witness ==
    /\ \A c \in Callers : call[c].pc \in {"idle", "done"}
    /\ brokenIds = {}
    /\ prev["p1"] # <<>>
    /\ Len(chunkText(prev["p1"][1], IndexChunkSize)) = 3
    /\ \E f \in files : f.path = "p1" /\ f.content = <<"a">> /\ Len(ChunkRows(f.id)) = 1

\* C2: at every state the chunk rows of each file row are the complete chunks of
\* its content, or the complete chunks of the content the path held before.
C2_AtomicReplace ==
    \A f \in files :
        \/ ExactChunks(f.id, f.content)
        \/ prev[f.path] # <<>> /\ ExactChunks(f.id, prev[f.path][1])

\* File list[j] is stored whole: its row and the chunks of its content.
StoredWhole(file) ==
    \E f \in files :
        /\ f.path = file.path
        /\ f.content = file.content
        /\ f.mtime = file.mtime
        /\ ExactChunks(f.id, file.content)

\* The rows of path p are what they were in the snapshot snap.
PathAsBefore(p, snap) ==
    LET now == {f \in files : f.path = p}
        was == {f \in snap.files : f.path = p}
    IN /\ now = was
       /\ SelectSeq(embeddings, LAMBDA e : e.file_id \in {f.id : f \in now})
          = SelectSeq(snap.embeddings, LAMBDA e : e.file_id \in {f.id : f \in was})

DistinctPaths(list) ==
    \A m, n \in 1..Len(list) : list[m].path = list[n].path => m = n

FailedAtEmbedding(c) == call[c].pc = "failed" /\ call[c].err = "embedding"

EarlierKeptLaterUntouched(c) ==
    /\ call[c].reply = "error"
    /\ \A j \in 1..Len(call[c].files) :
          /\ j < call[c].k => StoredWhole(call[c].files[j])
          /\ j > call[c].k => PathAsBefore(call[c].files[j].path, pre[c])

\* C3 as stated: when the embedding request of file k fails, the call fails, the
\* files before k are stored whole and the paths after k are as before the call.
C3_PartialProgressKept ==
    \A c \in Callers : FailedAtEmbedding(c) => EarlierKeptLaterUntouched(c)

\* C3 amended: the same, for a list of pairwise distinct paths and a call during
\* which (and after which) no other indexFiles call has written to the store.
C3_PartialProgressKeptAlone ==
    \A c \in Callers :
        FailedAtEmbedding(c) /\ DistinctPaths(call[c].files) /\ ~disturbed[c]
            => EarlierKeptLaterUntouched(c)

\* A call alone failed at its second file, whose path held chunks before the
\* call; its first file has chunks.
C3_Witness ==
    \E c \in Callers :
        /\ FailedAtEmbedding(c) /\ DistinctPaths(call[c].files) /\ ~disturbed[c]
        /\ call[c].k = 2
        /\ chunkText(call[c].files[1].content, IndexChunkSize) # <<>>
        /\ \E f \in pre[c].files :
              /\ f.path = call[c].files[2].path
              /\ \E n \in 1..Len(pre[c].embeddings) : pre[c].embeddings[n].file_id = f.id

\* C10: at most one file row for each path, every chunk row belongs to a file row
\* that exists, and (file_id, chunk_index) names one chunk row.
C10_UniquePathNoOrphan ==
    /\ \A f, g \in files : f.path = g.path => f = g
    /\ \A n \in 1..Len(embeddings) : \E f \in files : f.id = embeddings[n].file_id
    /\ \A m, n \in 1..Len(embeddings) :
          embeddings[m].file_id = embeddings[n].file_id
          /\ embeddings[m].chunk_index = embeddings[n].chunk_index => m = n

\* Of two overlapping calls on one path, the one whose file row was replaced has
\* been refused its chunk rows.
C10_Witness ==
    \E c, d \in Callers :
        /\ c # d
        /\ call[c].pc = "failed" /\ call[c].err = "constraint"
        /\ call[d].pc = "await"
        /\ call[c].files[call[c].k].path = call[d].files[call[d].k].path

(***************************************************************************)
(* Properties of search and getRecentFiles.  While an answer is in res the *)
(* store is as the operation read it.                                      *)
(***************************************************************************)
\* The place of row n of rs in the order by score descending, ties in the order
\* of rs: one more than the number of rows that go before it.
Rank(rs, n) ==
    1 + Cardinality({m \in 1..Len(rs) :
                        \/ ScoreLess(rs[n].score, rs[m].score)
                        \/ rs[m].score = rs[n].score /\ m < n})

\* C6: search over N chunk rows answers min(limit, N) results, the first of the
\* rows ordered by score descending with ties in retrieval order; scores do not
\* increase along the answer and no row left out scores more than one returned.
C6_TopKStableSorted ==
    res.op = "search" /\ ~res.error =>
        LET all == Scored(res.query)
            k == Min(res.limit, Len(embeddings))
        IN /\ Len(res.out) = k
           /\ \A n \in 1..Len(all) : Rank(all, n) <= k => res.out[Rank(all, n)] = all[n]
           /\ \A n \in 1..(k - 1) : ~ScoreLess(res.out[n].score, res.out[n + 1].score)
           /\ \A n \in 1..Len(all) : Rank(all, n) > k =>
                 \A m \in 1..k : ~ScoreLess(res.out[m].score, all[n].score)

\* A search with limit 2 over three rows or more, where a row after the second is
\* returned and two rows have the same score.
C6_Witness ==
    /\ res.op = "search" /\ ~res.error /\ res.limit = 2
    /\ Len(embeddings) >= 3
    /\ \E n \in 3..Len(embeddings) : Rank(Scored(res.query), n) <= 2
    /\ \E m, n \in 1..Len(embeddings) :
          m # n /\ Scored(res.query)[m].score = Scored(res.query)[n].score

\* C7: a search with limit 0 answers nothing, called directly or through the
\* semantic_search tool.
C7_LimitZeroIsEmpty ==
    /\ res.op = "search" /\ ~res.error /\ res.limit = 0 => res.out = <<>>
    /\ res.op = "semantic_search" /\ res.arg = <<0>> => res.out = <<>> /\ res.count = 0

\* out is the file rows modified after now - days * 86400 s, newest first, and
\* for days = 0 holds no file modified at or before now.
RecentAnswer(out, days, now) ==
    LET want == {[path |-> f.path, mtime |-> f.mtime] :
                    f \in {g \in files : g.mtime > now - days * DayMs}}
    IN /\ {out[n] : n \in 1..Len(out)} = want
       /\ Len(out) = Cardinality(want)
       /\ \A n \in 1..(Len(out) - 1) : out[n].mtime >= out[n + 1].mtime
       /\ days = 0 => \A n \in 1..Len(out) : out[n].mtime > now

\* C8: getRecentFiles(days), called directly or through the recent_activity tool
\* with days given, answers as RecentAnswer says, days = 0 included.
C8_RecentFilesStrictlyAfter ==
    /\ res.op = "getRecentFiles" => RecentAnswer(res.out, res.days, res.now)
    /\ res.op = "recent_activity" /\ res.arg # <<>> =>
          RecentAnswer(res.out, res.arg[1], res.now)

\* C9 (under SpecMixed): a search that meets a stored vector whose dimension is
\* not that of the query vector fails instead of answering.
C9_MismatchIsError ==
    /\ res.op \in {"search", "semantic_search"}
    /\ \E n \in 1..Len(JoinedRows) : Len(JoinedRows[n].embedding) # Len(res.query)
    => res.error

====
